---- MODULE Spec2Model ----
(***************************************************************************)
(* A model of jcvi/apps/grid.py: the producer-consumer aggregation         *)
(* pipeline (WriteJobs, work, write), the remote job descriptor            *)
(* (GridProcess.build, GridProcess.start), the job collection (Grid), the  *)
(* build driver (Dependency, MakeManager), the job canceller (kill), the   *)
(* fan-out runner (Jobs) and the dialect probe (get_grid_engine).  Each    *)
(* part has its own specification; the variables of the other parts stay   *)
(* at their idle values.                                                   *)
(***************************************************************************)
EXTENDS Integers, Sequences, FiniteSets, TLC

(***************************************************************************)
(* Bounds of the model.                                                    *)
(***************************************************************************)
MaxInputs == 2
MaxCpus == 2
MaxLen == 2

Min(a, b) == IF a <= b THEN a ELSE b

(***************************************************************************)
(* Values carried by the two queues.  A work item is an opaque caller      *)
(* value; what the pipeline reads of it is its len() and what target()     *)
(* returns for it.  A result is None or a (possibly empty) string.         *)
(***************************************************************************)
Results == {[kind |-> "None", val |-> ""],
            [kind |-> "str", val |-> ""],
            [kind |-> "str", val |-> "r1"]}

Items == [len : 0..MaxLen, out : Results]

\* The input lists of the model: 1..MaxInputs argument tuples of one arity.
ArgLists ==
    UNION {[1..n -> {a \in Items : a.len = l}] : n \in 1..MaxInputs, l \in 0..MaxLen}

Poison == [kind |-> "Poison", val |-> ""]

\* isinstance(x, Poison)
IsPoison(x) == x.kind = "Poison"

\* Python truth value of a result: None and "" are false.
Truthy(res) == res.kind = "str" /\ res.val # ""

\* target(a): the caller's function, applied to a work item.
target(a) == a.out

VARIABLES
    args,       \* WriteJobs.__init__: the inputs
    cpus_req,   \* WriteJobs.__init__: the cpus argument
    workerq,    \* the work queue: items (by position in args) and Poisons
    writerq,    \* the result queue: results and Poisons
    worker,     \* self.worker: one process per entry, its position in work()
    wcur,       \* the item each worker holds (a in work())
    writer,     \* self.writer: the writer's position in write()
    wcpus,      \* the cpus argument given to write()
    poisons,    \* write(): the finished-worker tally
    fw,         \* write(): the output file handle: "none", "open", "closed"
    opens,      \* how many times the output file was opened
    out,        \* the output file: the values printed, one per line
    wrote,      \* the processes that have written to the output file
    applied,    \* how many times target was called on each input
    got,        \* how many times each input was dequeued from the work queue
    runpc,      \* WriteJobs.run(): position
    runi        \* WriteJobs.run(): loop index of Jobs.start / Jobs.join

pvars == <<args, cpus_req, workerq, writerq, worker, wcur, writer, wcpus,
           poisons, fw, opens, out, wrote, applied, got, runpc, runi>>

VARIABLES
    gp,         \* the GridProcess: its fields
    gstatus,    \* how the last call on it ended
    gcalls,     \* how many calls were made on it
    built,      \* build(): the command returned by the last build()
    output,     \* start(): the text captured from the last submission
    jobid0,     \* the jobid the descriptor had when the last start() began
    submitted,  \* the commands handed to popen, in order
    files       \* the paths that exist in the file system

gvars == <<gp, gstatus, gcalls, built, output, jobid0, submitted, files>>

VARIABLES
    members,    \* Grid: the GridProcess of each member, in registration order
    cstate,     \* Grid: where each member's start() is: "new", "popen",
                \* "returned", "raised"
    cpc,        \* Grid.run(): position
    ci,         \* Grid.run(): the member the loop is at
    corder,     \* the members in the order their start() was called
    sched,      \* the external scheduler: the state of each member's job
    csub,       \* the submission commands run for the members, in order
    cfiles,     \* the paths that exist while the collection runs
    ctext,      \* what the submission command in flight prints
    cpre,       \* the paths that still hold a file from before run()
    clobbered   \* the paths where a job wrote over such a file

cvars == <<members, cstate, cpc, ci, corder, sched, csub, cfiles, ctext,
           cpre, clobbered>>

VARIABLES
    mdeps,      \* MakeManager: the Dependency list (self)
    mtargets,   \* MakeManager: self.targets
    mfile,      \* the makefile: <<>> when absent, else <<its lines>>
    mbak,       \* the backup of the makefile, likewise
    mstatus,    \* how the last call on the MakeManager ended
    mprev,      \* <<the lines written>> when the call before was a write()
                \* that succeeded, else <<>>
    mcalls,     \* how many calls were made on the MakeManager
    madds       \* the arguments of each add(), in order

mvars == <<mdeps, mtargets, mfile, mbak, mstatus, mprev, mcalls, madds>>

VARIABLES
    ktag,       \* kill: the argument
    kmethod,    \* kill: opts.method, <<>> when the option is not given
    kpc,        \* kill: position
    kclass,     \* kill: method, "none" before it is set
    kids,       \* kill: valid_jobids
    kquery,     \* kill: how the status query ended, "none" before it
    kcalls      \* the external commands kill has run, in order

kvars == <<ktag, kmethod, kpc, kclass, kids, kquery, kcalls>>

VARIABLES
    jargs,      \* Jobs.__init__: args
    jprocs,     \* Jobs: the processes (self), each with its args and state
    jpc,        \* Jobs.run(): position
    ji          \* Jobs.run(): loop index of start() / join()

jvars == <<jargs, jprocs, jpc, ji>>

VARIABLES
    ecmd,       \* get_grid_engine: the command it ran, <<>> before
    ebanner,    \* get_grid_engine: the text read from that command
    epc,        \* get_grid_engine: position
    engine      \* get_grid_engine: what it returned, "none" before

evars == <<ecmd, ebanner, epc, engine>>

vars == <<pvars, gvars, cvars, mvars, kvars, jvars, evars>>

\* What the actions of each part leave alone.
notPipe == <<gvars, cvars, mvars, kvars, jvars, evars>>
notGrid == <<pvars, cvars, mvars, kvars, jvars, evars>>
notColl == <<pvars, gvars, mvars, kvars, jvars, evars>>
notMake == <<pvars, gvars, cvars, kvars, jvars, evars>>
notKill == <<pvars, gvars, cvars, mvars, jvars, evars>>
notJobs == <<pvars, gvars, cvars, mvars, kvars, evars>>
notEngine == <<pvars, gvars, cvars, mvars, kvars, jvars>>

\* The state of the job collection part while another part runs.
CollIdle ==
    /\ members = <<>>
    /\ cstate = <<>>
    /\ cpc = "none"
    /\ ci = 0
    /\ corder = <<>>
    /\ sched = <<>>
    /\ csub = <<>>
    /\ cfiles = {}
    /\ ctext = <<>>
    /\ cpre = {}
    /\ clobbered = {}

\* The state of the build driver part while another part runs.
MakeIdle ==
    /\ mdeps = <<>>
    /\ mtargets = <<>>
    /\ mfile = <<>>
    /\ mbak = <<>>
    /\ mstatus = "none"
    /\ mprev = <<>>
    /\ mcalls = 0
    /\ madds = <<>>

\* The state of the job canceller part while another part runs.
KillIdle ==
    /\ ktag = <<>>
    /\ kmethod = <<>>
    /\ kpc = "none"
    /\ kclass = "none"
    /\ kids = {}
    /\ kquery = "none"
    /\ kcalls = <<>>

\* The state of the dialect probe part while another part runs.
EngineIdle ==
    /\ ecmd = <<>>
    /\ ebanner = <<>>
    /\ epc = "none"
    /\ engine = "none"

\* The state of the fan-out runner part while another part runs.
JobsIdle ==
    /\ jargs = <<>>
    /\ jprocs = <<>>
    /\ jpc = "none"
    /\ ji = 0

\* The state of the job descriptor part while the pipeline runs.
GridIdle ==
    /\ gp = <<>>
    /\ gstatus = "none"
    /\ gcalls = 0
    /\ built = <<>>
    /\ output = <<>>
    /\ jobid0 = <<>>
    /\ submitted = <<>>
    /\ files = {}

\* cpus = min(cpus, len(a)): a is the loop variable left over from
\* "for a in args", that is the last input.
EffectiveCpus(cpus, as) == Min(cpus, as[Len(as)].len)

\* for a in args: workerq.put(a); then cpus times workerq.put(Poison())
SeedQueue(as, c) ==
    [i \in 1..(Len(as) + c) |->
        IF i <= Len(as) THEN [kind |-> "item", val |-> i]
        ELSE [kind |-> "Poison", val |-> 0]]

\* Jobs(work, args=[(workerq, writerq, target)] * cpus)
NewJobs(c) == [w \in 1..c |-> "new"]

Init ==
    /\ args \in ArgLists
    /\ cpus_req \in 1..MaxCpus
    /\ workerq = SeedQueue(args, EffectiveCpus(cpus_req, args))
    /\ writerq = <<>>
    /\ worker = NewJobs(EffectiveCpus(cpus_req, args))
    /\ wcur = [w \in DOMAIN worker |-> 0]
    /\ writer = "new"
    /\ wcpus = EffectiveCpus(cpus_req, args)
    /\ poisons = 0
    /\ fw = "none"
    /\ opens = 0
    /\ out = <<>>
    /\ wrote = {}
    /\ applied = [i \in DOMAIN args |-> 0]
    /\ got = [i \in DOMAIN args |-> 0]
    /\ runpc = "worker.start"
    /\ runi = 1
    /\ GridIdle /\ CollIdle /\ MakeIdle /\ KillIdle /\ JobsIdle /\ EngineIdle

(***************************************************************************)
(* WriteJobs.run()                                                         *)
(***************************************************************************)
\* self.worker.start(): Jobs.start, one pi.start() per step
RunWorkerStart ==
    /\ runpc = "worker.start"
    /\ runi <= Len(worker)
    /\ worker' = [worker EXCEPT ![runi] = "get"]
    /\ runi' = runi + 1
    /\ UNCHANGED <<args, cpus_req, workerq, writerq, wcur, writer, wcpus,
                   poisons, fw, opens, out, wrote, applied, got, runpc>>
    /\ UNCHANGED notPipe

\* self.writer.start(), after the loop of Jobs.start has ended
RunWriterStart ==
    /\ runpc = "worker.start"
    /\ runi > Len(worker)
    /\ writer' = "open"
    /\ runpc' = "worker.join"
    /\ runi' = 1
    /\ UNCHANGED <<args, cpus_req, workerq, writerq, worker, wcur, wcpus,
                   poisons, fw, opens, out, wrote, applied, got>>
    /\ UNCHANGED notPipe

\* self.worker.join(): Jobs.join, pi.join() returns once pi has exited
RunWorkerJoin ==
    /\ runpc = "worker.join"
    /\ runi <= Len(worker)
    /\ worker[runi] \in {"done", "failed"}
    /\ runi' = runi + 1
    /\ UNCHANGED <<args, cpus_req, workerq, writerq, worker, wcur, writer,
                   wcpus, poisons, fw, opens, out, wrote, applied, got, runpc>>
    /\ UNCHANGED notPipe

\* self.writer.join(), after the loop of Jobs.join has ended
RunWriterJoin ==
    /\ runpc = "worker.join"
    /\ runi > Len(worker)
    /\ writer = "done"
    /\ runpc' = "returned"
    /\ UNCHANGED <<args, cpus_req, workerq, writerq, worker, wcur, writer,
                   wcpus, poisons, fw, opens, out, wrote, applied, got, runi>>
    /\ UNCHANGED notPipe

(***************************************************************************)
(* work(queue_in, queue_out, target)                                       *)
(***************************************************************************)
\* a = queue_in.get(); if isinstance(a, Poison): break
WorkGet(w) ==
    /\ worker[w] = "get"
    /\ workerq # <<>>
    /\ LET a == Head(workerq) IN
        /\ workerq' = Tail(workerq)
        /\ IF IsPoison(a)
           THEN /\ worker' = [worker EXCEPT ![w] = "break"]
                /\ UNCHANGED <<wcur, got>>
           ELSE /\ worker' = [worker EXCEPT ![w] = "apply"]
                /\ wcur' = [wcur EXCEPT ![w] = a.val]
                /\ got' = [got EXCEPT ![a.val] = @ + 1]
    /\ UNCHANGED <<args, cpus_req, writerq, writer, wcpus, poisons, fw,
                   opens, out, wrote, applied, runpc, runi>>
    /\ UNCHANGED notPipe

\* Mutant of WorkApply: the worker prints its result to the output file
\* itself instead of handing it to the writer.
WorkApply_Direct(w) ==
    /\ worker[w] = "apply"
    /\ applied' = [applied EXCEPT ![wcur[w]] = @ + 1]
    /\ out' = out \o <<target(args[wcur[w]])>>
    /\ wrote' = wrote \cup {<<"worker", w>>}
    /\ worker' = [worker EXCEPT ![w] = "get"]
    /\ UNCHANGED <<args, cpus_req, workerq, writerq, wcur, writer, wcpus,
                   poisons, fw, opens, got, runpc, runi>>
    /\ UNCHANGED notPipe

\* res = target(a); queue_out.put(res)
WorkApply(w) ==
    /\ worker[w] = "apply"
    /\ applied' = [applied EXCEPT ![wcur[w]] = @ + 1]
    /\ writerq' = Append(writerq, target(args[wcur[w]]))
    /\ worker' = [worker EXCEPT ![w] = "get"]
    /\ UNCHANGED <<args, cpus_req, workerq, wcur, writer, wcpus, poisons,
                   fw, opens, out, wrote, got, runpc, runi>>
    /\ UNCHANGED notPipe

\* Mutant of WorkFail: the failing worker still puts its Poison, as a
\* try/finally around the loop would.
WorkFail_Finally(w) ==
    /\ worker[w] = "apply"
    /\ applied' = [applied EXCEPT ![wcur[w]] = @ + 1]
    /\ writerq' = Append(writerq, Poison)
    /\ worker' = [worker EXCEPT ![w] = "failed"]
    /\ UNCHANGED <<args, cpus_req, workerq, wcur, writer, wcpus,
                   poisons, fw, opens, out, wrote, got, runpc, runi>>
    /\ UNCHANGED notPipe

\* target(a) raises: the process ends with the exception, nothing is put
WorkFail(w) ==
    /\ worker[w] = "apply"
    /\ applied' = [applied EXCEPT ![wcur[w]] = @ + 1]
    /\ worker' = [worker EXCEPT ![w] = "failed"]
    /\ UNCHANGED <<args, cpus_req, workerq, writerq, wcur, writer, wcpus,
                   poisons, fw, opens, out, wrote, got, runpc, runi>>
    /\ UNCHANGED notPipe

\* queue_out.put(Poison()), after the loop
WorkPoison(w) ==
    /\ worker[w] = "break"
    /\ writerq' = Append(writerq, Poison)
    /\ worker' = [worker EXCEPT ![w] = "done"]
    /\ UNCHANGED <<args, cpus_req, workerq, wcur, writer, wcpus, poisons,
                   fw, opens, out, wrote, applied, got, runpc, runi>>
    /\ UNCHANGED notPipe

(***************************************************************************)
(* write(queue_in, queue_out, filename, cpus)                              *)
(***************************************************************************)
\* fw = must_open(filename, "w"); poisons = 0
WriteOpen ==
    /\ writer = "open"
    /\ fw' = "open"
    /\ opens' = opens + 1
    /\ out' = <<>>
    /\ poisons' = 0
    /\ writer' = "loop"
    /\ UNCHANGED <<args, cpus_req, workerq, writerq, worker, wcur, wcpus,
                   wrote, applied, got, runpc, runi>>
    /\ UNCHANGED notPipe

\* Mutant of WriteLines: every result is printed, the empty ones too.
WriteLines_NoFilter(res) == <<res>>

\* The lines that one pass of the loop body appends for res.
WriteLines(res) == IF Truthy(res) THEN <<res>> ELSE <<>>

\* The tally after one pass of the loop body for res.
WriteTally(res, n) == IF IsPoison(res) THEN n + 1 ELSE n

\* Mutant of WriteGet: the writer leaves its loop at the first Poison.
WriteGet_FirstPoison ==
    /\ writer = "loop"
    /\ writerq # <<>>
    /\ LET res == Head(writerq) IN
        /\ writerq' = Tail(writerq)
        /\ poisons' = WriteTally(res, poisons)
        /\ IF IsPoison(res)
           THEN /\ writer' = "close"
                /\ UNCHANGED <<out, wrote>>
           ELSE /\ out' = out \o WriteLines(res)
                /\ wrote' = IF WriteLines(res) # <<>>
                            THEN wrote \cup {<<"writer", 0>>} ELSE wrote
                /\ UNCHANGED writer
    /\ UNCHANGED <<args, cpus_req, workerq, worker, wcur, wcpus, fw, opens,
                   applied, got, runpc, runi>>
    /\ UNCHANGED notPipe

\* res = queue_out.get() and the body of the loop
WriteGet ==
    /\ writer = "loop"
    /\ writerq # <<>>
    /\ LET res == Head(writerq) IN
        /\ writerq' = Tail(writerq)
        /\ poisons' = WriteTally(res, poisons)
        /\ IF IsPoison(res)
           THEN /\ writer' = IF poisons' = wcpus THEN "close" ELSE "loop"
                /\ UNCHANGED <<out, wrote>>
           ELSE /\ out' = out \o WriteLines(res)
                /\ wrote' = IF WriteLines(res) # <<>>
                            THEN wrote \cup {<<"writer", 0>>} ELSE wrote
                /\ UNCHANGED writer
    /\ UNCHANGED <<args, cpus_req, workerq, worker, wcur, wcpus, fw, opens,
                   applied, got, runpc, runi>>
    /\ UNCHANGED notPipe

\* fw.close()
WriteClose ==
    /\ writer = "close"
    /\ fw' = "closed"
    /\ writer' = "done"
    /\ UNCHANGED <<args, cpus_req, workerq, writerq, worker, wcur, wcpus,
                   poisons, opens, out, wrote, applied, got, runpc, runi>>
    /\ UNCHANGED notPipe

Next ==
    \/ RunWorkerStart
    \/ RunWriterStart
    \/ RunWorkerJoin
    \/ RunWriterJoin
    \/ \E w \in DOMAIN worker : WorkGet(w)
    \/ \E w \in DOMAIN worker : WorkApply(w)
    \/ \E w \in DOMAIN worker : WorkFail(w)
    \/ \E w \in DOMAIN worker : WorkPoison(w)
    \/ WriteOpen
    \/ WriteGet
    \/ WriteClose

Spec == Init /\ [][Next]_vars

(***************************************************************************)
(* GridProcess.  A string is a sequence of pieces; a captured output and   *)
(* a job id are sequences of single characters.  In a command the shell    *)
(* operators and the quotes are pieces of their own, in a path the         *)
(* separator "/" is.  An optional field is <<>> when it is None (or        *)
(* empty), an optional integer n is <<n>>.                                 *)
(***************************************************************************)
MaxCalls == 2
ArrLow == 1
ArrHigh == 100000

\* "{0}".format(n) for an integer n: its decimal digits.
DigitChar(d) == <<"0", "1", "2", "3", "4", "5", "6", "7", "8", "9">>[d + 1]

RECURSIVE Dec(_)
Dec(n) == IF n < 10 THEN <<DigitChar(n)>>
          ELSE Dec(n \div 10) \o <<DigitChar(n % 10)>>

ToStr(n) == IF n < 0 THEN <<"-">> \o Dec(-n) ELSE Dec(n)

\* Python truth value of an optional integer: None and 0 are false.
TruthyInt(x) == x # <<>> /\ x[1] # 0

\* Python truth value of an optional string: None and "" are false.
TruthyStr(x) == x # <<>>

\* x in s, for a piece x
Contains(s, x) == \E i \in DOMAIN s : s[i] = x

\* s has the pieces of t as a contiguous run
HasRun(s, t) ==
    \E i \in 1..(Len(s) - Len(t) + 1) : SubSeq(s, i, i + Len(t) - 1) = t

\* op.join(a, b)
join(a, b) ==
    IF b # <<>> /\ b[1] = "/" THEN b
    ELSE IF a = <<>> \/ a[Len(a)] = "/" THEN a \o b
    ELSE a \o <<"/">> \o b

\* jcvi.apps.base.backup(filename): an existing file is moved to
\* filename + ".bak".
backup(fs, filename) ==
    IF filename \in fs
    THEN (fs \ {filename}) \cup {filename \o <<".bak">>}
    ELSE fs

\* Whitespace, as str.strip() and the class \S see it.
IsSpace(c) == c \in {" ", "\n", "\t"}

IsDigit(c) == c \in {"0", "1", "2", "3", "4", "5", "6", "7", "8", "9"}

RECURSIVE LStrip(_)
LStrip(s) == IF s # <<>> /\ IsSpace(Head(s)) THEN LStrip(Tail(s)) ELSE s

RECURSIVE RStrip(_)
RStrip(s) == IF s # <<>> /\ IsSpace(s[Len(s)])
             THEN RStrip(SubSeq(s, 1, Len(s) - 1)) ELSE s

\* output.strip()
Strip(s) == RStrip(LStrip(s))

\* pat1 = re.compile(r"Your job (?P<id>[0-9]*) ")
\* pat2 = re.compile(r"Your job-array (?P<id>\S*) ")
PatPrefix(pat) ==
    IF pat = "pat1"
    THEN <<"Y", "o", "u", "r", " ", "j", "o", "b", " ">>
    ELSE <<"Y", "o", "u", "r", " ", "j", "o", "b", "-", "a", "r", "r", "a",
           "y", " ">>

\* The character class of the id group of the pattern.
InClass(pat, c) == IF pat = "pat1" THEN IsDigit(c) ELSE ~IsSpace(c)

RECURSIVE RunEnd(_, _, _)
\* The first position at or after p whose character is outside the class
\* (Len(s) + 1 when there is none): where the greedy group stops.
RunEnd(pat, s, p) ==
    IF p <= Len(s) /\ InClass(pat, s[p]) THEN RunEnd(pat, s, p + 1) ELSE p

\* The pattern matches s at position p.  The class excludes the space that
\* must follow the group, so only the longest run of the class can match.
MatchAt(pat, s, p) ==
    LET pre == PatPrefix(pat)
        b == p + Len(pre)
        e == RunEnd(pat, s, b)
    IN  /\ b - 1 <= Len(s)
        /\ SubSeq(s, p, b - 1) = pre
        /\ e <= Len(s)
        /\ s[e] = " "

\* re.search(pat, s): <<>> for None, else <<id>> with id the group "id" of
\* the leftmost match.
search(pat, s) ==
    LET ps == {p \in 1..Len(s) : MatchAt(pat, s, p)}
    IN  IF ps = {} THEN <<>>
        ELSE LET p == CHOOSE q \in ps : \A r \in ps : q <= r
                 b == p + Len(PatPrefix(pat))
             IN  <<SubSeq(s, b, RunEnd(pat, s, b) - 1)>>

\* The texts the submission command may print.
OutEmpty == <<>>
OutBlank == <<"\n">>
OutScalar ==
    <<"Y", "o", "u", "r", " ", "j", "o", "b", " ", "1", "2", "3", " ", "(",
      "\"", "f", "o", "o", "\"", ")", " ", "h", "a", "s", " ", "b", "e",
      "e", "n", " ", "s", "u", "b", "m", "i", "t", "t", "e", "d", "\n">>
OutArray ==
    <<"Y", "o", "u", "r", " ", "j", "o", "b", "-", "a", "r", "r", "a", "y",
      " ", "4", "5", "6", ".", "1", "-", "1", "0", ":", "1", " ", "(",
      "\"", "f", "o", "o", "\"", ")", " ", "h", "a", "s", " ", "b", "e",
      "e", "n", " ", "s", "u", "b", "m", "i", "t", "t", "e", "d", "\n">>
OutError ==
    <<"U", "n", "a", "b", "l", "e", " ", "t", "o", " ", "r", "u", "n", " ",
      "j", "o", "b", ":", " ", "d", "e", "n", "i", "e", "d", "\n">>

Outputs == {OutEmpty, OutBlank, OutScalar, OutArray, OutError}

\* The commands of the model: a plain one, one with a pipe, one with quotes
\* and a logical and.
Cmds == {<<"ls">>,
         <<"ls ", "|", " wc">>,
         <<"echo ", "'", "a", "'", " ", "&&", " ls">>}

\* The array sizes of the model: None, and integers around both limits.
Arrs == {<<>>} \cup {<<a>> : a \in {ArrLow - 2, ArrLow - 1, ArrLow, ArrLow + 1,
                                   ArrHigh - 1, ArrHigh, ArrHigh + 1}}

\* The optional fields of the model: all left at their defaults, or all set.
Options ==
    {[queue |-> <<"default">>, threaded |-> <<>>, concurrency |-> <<>>,
      name |-> <<>>, hold_jid |-> <<>>, infile |-> <<>>],
     [queue |-> <<"fast">>, threaded |-> <<4>>, concurrency |-> <<2>>,
      name |-> <<"n">>, hold_jid |-> <<"7">>, infile |-> <<"in">>]}

\* Mutant of NewGridProcess: the scalar pattern is taken for every job.
NewGridProcess_Pat1(cmd, arr, outfile, errfile, outdir, o) ==
    [cmd |-> cmd, jobid |-> <<>>, queue |-> o.queue, threaded |-> o.threaded,
     infile |-> o.infile, outfile |-> outfile, errfile |-> errfile,
     arr |-> arr, concurrency |-> o.concurrency, outdir |-> outdir,
     name |-> o.name, pcode |-> <<"0372">>, hold_jid |-> o.hold_jid,
     pat |-> "pat1"]

\* GridProcess.__init__
NewGridProcess(cmd, arr, outfile, errfile, outdir, o) ==
    [cmd |-> cmd, jobid |-> <<>>, queue |-> o.queue, threaded |-> o.threaded,
     infile |-> o.infile, outfile |-> outfile, errfile |-> errfile,
     arr |-> arr, concurrency |-> o.concurrency, outdir |-> outdir,
     name |-> o.name, pcode |-> <<"0372">>, hold_jid |-> o.hold_jid,
     pat |-> IF TruthyInt(arr) THEN "pat2" ELSE "pat1"]

\* The paths that may exist before the descriptor is used.
OldFiles == {<<"o">>, <<"e">>, <<".", "/", "o">>, <<".", "/", "e">>,
             <<"d", "/", "o">>, <<"d", "/", "e">>}

\* The state of the pipeline part while a job descriptor is used.
PipeIdle ==
    /\ args = <<>>
    /\ cpus_req = 0
    /\ workerq = <<>>
    /\ writerq = <<>>
    /\ worker = <<>>
    /\ wcur = <<>>
    /\ writer = "none"
    /\ wcpus = 0
    /\ poisons = 0
    /\ fw = "none"
    /\ opens = 0
    /\ out = <<>>
    /\ wrote = {}
    /\ applied = <<>>
    /\ got = <<>>
    /\ runpc = "none"
    /\ runi = 0

GridInit ==
    /\ \E cmd \in Cmds, arr \in Arrs, outfile \in {<<>>, <<"o">>},
          errfile \in {<<>>, <<"o">>, <<"e">>}, outdir \in {<<".">>, <<"d">>},
          o \in Options :
            gp = NewGridProcess(cmd, arr, outfile, errfile, outdir, o)
    /\ gstatus = "constructed"
    /\ gcalls = 0
    /\ built = <<>>
    /\ output = <<>>
    /\ jobid0 = <<>>
    /\ submitted = <<>>
    /\ files \in {{}, OldFiles}
    /\ PipeIdle /\ CollIdle /\ MakeIdle /\ KillIdle /\ JobsIdle /\ EngineIdle


\* "|" in self.cmd or "&&" in self.cmd or "||" in self.cmd
NeedsShell(cmd) ==
    Contains(cmd, "|") \/ Contains(cmd, "&&") \/ Contains(cmd, "||")

\* build(), shell commands: the command wrapped in sh -c and a quote
ShellCmd(cmd) ==
    IF NeedsShell(cmd)
    THEN LET quote == IF Contains(cmd, "'") THEN "\"" ELSE "'"
         IN  <<"sh -c ", quote>> \o cmd \o <<quote>>
    ELSE cmd

\* if self.arr: assert 1 <= self.arr < 100000
ArrayOk(g) ==
    TruthyInt(g.arr) => (ArrLow <= g.arr[1] /\ g.arr[1] < ArrHigh)

\* build(), qsub command: the flags of the fields that are set
QsubFlags(g) ==
    <<"qsub -P ">> \o g.pcode \o <<" -cwd">>
    \o (IF g.queue # <<"default">> THEN <<" -l ">> \o g.queue ELSE <<>>)
    \o (IF TruthyInt(g.threaded)
        THEN <<" -pe threaded ">> \o ToStr(g.threaded[1]) ELSE <<>>)
    \o (IF TruthyInt(g.arr) THEN <<" -t 1-">> \o ToStr(g.arr[1]) ELSE <<>>)
    \o (IF TruthyInt(g.concurrency)
        THEN <<" -tc ">> \o ToStr(g.concurrency[1]) ELSE <<>>)
    \o (IF TruthyStr(g.name)
        THEN <<" -N ", "\"">> \o g.name \o <<"\"">> ELSE <<>>)
    \o (IF TruthyStr(g.hold_jid)
        THEN <<" ", IF TruthyInt(g.arr) THEN "-hold_jid_ad" ELSE "-hold_jid",
               " ">> \o g.hold_jid
        ELSE <<>>)

\* redirect_same = outfile and (outfile == errfile)
RedirectSame(g) == TruthyStr(g.outfile) /\ g.outfile = g.errfile

\* build(), I/O: self.outfile after it
NewOutfile(g) ==
    IF TruthyStr(g.outfile) THEN join(g.outdir, g.outfile) ELSE g.outfile

\* build(), I/O: self.errfile after it
NewErrfile(g) ==
    IF TruthyStr(g.errfile) /\ ~RedirectSame(g)
    THEN join(g.outdir, g.errfile) ELSE g.errfile

\* Mutant of IoFlags: the error destination always gets its own flag.
IoFlags_Separate(g) ==
    (IF TruthyStr(g.infile) THEN <<" -i ">> \o g.infile ELSE <<>>)
    \o (IF TruthyStr(g.outfile) THEN <<" -o ">> \o NewOutfile(g) ELSE <<>>)
    \o (IF TruthyStr(g.errfile)
        THEN <<" -e ">> \o join(g.outdir, g.errfile)
        ELSE <<>>)

\* build(), I/O: the redirection flags
IoFlags(g) ==
    (IF TruthyStr(g.infile) THEN <<" -i ">> \o g.infile ELSE <<>>)
    \o (IF TruthyStr(g.outfile) THEN <<" -o ">> \o NewOutfile(g) ELSE <<>>)
    \o (IF TruthyStr(g.errfile)
        THEN IF RedirectSame(g) THEN <<" -j y">>
             ELSE <<" -e ">> \o NewErrfile(g)
        ELSE <<>>)

\* Mutant of build: build() clears the job id of the descriptor.
build_Resets(g, fs) ==
    LET g1 == [g EXCEPT !.cmd = ShellCmd(g.cmd), !.jobid = <<>>]
    IN  IF ~ArrayOk(g)
        THEN [ok |-> FALSE, gp |-> g1, cmd |-> <<>>, files |-> fs]
        ELSE [ok |-> TRUE,
              gp |-> [g1 EXCEPT !.outfile = NewOutfile(g),
                                !.errfile = NewErrfile(g)],
              cmd |-> QsubFlags(g) \o IoFlags(g) \o <<" ">> \o g1.cmd,
              files |-> fs \cup {g.outdir}]

\* GridProcess.build() on the descriptor g with the file system fs: whether
\* it returned (ok) or raised AssertionError, the descriptor and the file
\* system it leaves, and the command it returned.
build(g, fs) ==
    LET g1 == [g EXCEPT !.cmd = ShellCmd(g.cmd)]
    IN  IF ~ArrayOk(g)
        THEN [ok |-> FALSE, gp |-> g1, cmd |-> <<>>, files |-> fs]
        ELSE [ok |-> TRUE,
              gp |-> [g1 EXCEPT !.outfile = NewOutfile(g),
                                !.errfile = NewErrfile(g)],
              cmd |-> QsubFlags(g) \o IoFlags(g) \o <<" ">> \o g1.cmd,
              files |-> fs \cup {g.outdir}]

\* Mutant of ParseJobid: the test for an empty output is missing.
ParseJobid_NoSentinel(pat, text) ==
    LET m == search(pat, text)
    IN  IF m = <<>> THEN [raised |-> TRUE, id |-> <<>>]
        ELSE [raised |-> FALSE, id |-> m[1]]

\* Mutant of ParseJobid: an output that does not match gets the sentinel.
ParseJobid_Lenient(pat, text) ==
    LET m == search(pat, text)
    IN  IF Strip(text) # <<>> /\ m # <<>>
        THEN [raised |-> FALSE, id |-> m[1]]
        ELSE [raised |-> FALSE, id |-> <<"-", "1">>]

\* start(): the job id taken from the captured text.  re.search returns
\* None when nothing matches and None.group raises AttributeError.
ParseJobid(pat, text) ==
    IF Strip(text) # <<>>
    THEN LET m == search(pat, text)
         IN  IF m = <<>> THEN [raised |-> TRUE, id |-> <<>>]
             ELSE [raised |-> FALSE, id |-> m[1]]
    ELSE [raised |-> FALSE, id |-> <<"-", "1">>]

\* start(): backup(self.outfile) and backup(self.errfile), each if set
BackupOutputs(g, fs) ==
    LET f1 == IF TruthyStr(g.outfile) THEN backup(fs, g.outfile) ELSE fs
    IN  IF TruthyStr(g.errfile) THEN backup(f1, g.errfile) ELSE f1

\* A call of GridProcess.build() by itself.
Build ==
    /\ gcalls < MaxCalls
    /\ LET b == build(gp, files) IN
        /\ gp' = b.gp
        /\ files' = b.files
        /\ built' = b.cmd
        /\ gstatus' = IF b.ok THEN "built" ELSE "AssertionError"
    /\ gcalls' = gcalls + 1
    /\ UNCHANGED <<output, jobid0, submitted>>
    /\ UNCHANGED notGrid

\* A call of GridProcess.start(); text is what the submission prints.
Start(text) ==
    /\ gcalls < MaxCalls
    /\ gcalls' = gcalls + 1
    /\ jobid0' = gp.jobid
    /\ LET b == build(gp, files)
           r == ParseJobid(gp.pat, text)
       IN  /\ built' = b.cmd
           /\ IF ~b.ok
              THEN /\ gp' = b.gp
                   /\ files' = b.files
                   /\ gstatus' = "AssertionError"
                   /\ UNCHANGED <<output, submitted>>
              ELSE /\ submitted' = Append(submitted, b.cmd)
                   /\ output' = text
                   /\ IF r.raised
                      THEN /\ gp' = b.gp
                           /\ files' = b.files
                           /\ gstatus' = "AttributeError"
                      ELSE /\ gp' = [b.gp EXCEPT !.jobid = r.id]
                           /\ files' = BackupOutputs(b.gp, b.files)
                           /\ gstatus' = "returned"
    /\ UNCHANGED notGrid

GridNext ==
    \/ Build
    \/ \E text \in Outputs : Start(text)

GridSpec == GridInit /\ [][GridNext]_vars

\* ---------------------------------------------------------------------
\* Grid: a list of GridProcess, submitted one after the other
\* ---------------------------------------------------------------------

MaxMembers == 2

\* The defaults of GridProcess.__init__ for the fields Grid does not pass.
Defaults ==
    [queue |-> <<"default">>, threaded |-> <<>>, concurrency |-> <<>>,
     name |-> <<>>, hold_jid |-> <<>>, infile |-> <<>>]

\* zip(cmds, outfiles), after outfiles = [None] * len(cmds) when it is empty
Zip(cmds, outfiles) ==
    LET outs == IF outfiles = <<>> THEN [i \in DOMAIN cmds |-> <<>>]
                ELSE outfiles
    IN  [i \in 1..Min(Len(cmds), Len(outs)) |-> <<cmds[i], outs[i]>>]

\* Grid.__init__: one GridProcess(cmd, outfile=outfile) per pair, in order
NewGrid(cmds, outfiles) ==
    LET z == Zip(cmds, outfiles)
    IN  [i \in DOMAIN z |->
            NewGridProcess(z[i][1], <<>>, z[i][2], <<>>, <<".">>, Defaults)]

\* The command lists of the model: assert cmds leaves the non-empty ones.
CmdLists == UNION {[1..n -> Cmds] : n \in 1..MaxMembers}

\* The outfile lists of the model: empty, or up to one name per command.
OutfileLists(cmds) == UNION {[1..n -> {<<"o">>}] : n \in 0..Len(cmds)}

CollInit ==
    /\ \E cmds \in CmdLists : \E outfiles \in OutfileLists(cmds) :
          members = NewGrid(cmds, outfiles)
    /\ cstate = [i \in DOMAIN members |-> "new"]
    /\ sched = [i \in DOMAIN members |-> "none"]
    /\ cpc = "run"
    /\ ci = 1
    /\ corder = <<>>
    /\ csub = <<>>
    /\ cfiles \in {{}, OldFiles}
    /\ ctext = <<>>
    /\ cpre = cfiles
    /\ clobbered = {}
    /\ PipeIdle /\ GridIdle /\ MakeIdle /\ KillIdle /\ JobsIdle /\ EngineIdle

\* The scheduler has the job when the text the submission prints names it.
Accepted(pat, text) ==
    Strip(text) # <<>> /\ search(pat, text) # <<>>

\* The destinations a job writes to: the output and error paths given
\* to the submission command.
Dests(g) ==
    (IF TruthyStr(g.outfile) THEN {g.outfile} ELSE {})
    \cup (IF TruthyStr(g.errfile) /\ ~RedirectSame(g) THEN {g.errfile} ELSE {})

\* Grid.run(), for pi in self: pi.start() up to the Popen of the submission
\* command; text is what the command prints.  The members are built with
\* arr = None, so build() returns.  From here on the scheduler has the job.
CollStart(text) ==
    /\ cpc = "run"
    /\ ci <= Len(members)
    /\ LET b == build(members[ci], cfiles)
       IN  /\ members' = [members EXCEPT ![ci] = b.gp]
           /\ cfiles' = b.files
           /\ csub' = Append(csub, b.cmd)
    /\ ctext' = text
    /\ sched' = [sched EXCEPT ![ci] =
                    IF Accepted(members[ci].pat, text) THEN "queued"
                    ELSE "none"]
    /\ cstate' = [cstate EXCEPT ![ci] = "popen"]
    /\ corder' = Append(corder, ci)
    /\ cpc' = "start"
    /\ UNCHANGED <<ci, cpre, clobbered>>
    /\ UNCHANGED notColl

\* pi.start() from the read of the printed text on: the job id, then the
\* backups.  An AttributeError leaves run().
CollRead ==
    /\ cpc = "start"
    /\ LET g == members[ci]
           r == ParseJobid(g.pat, ctext)
       IN  IF r.raised
           THEN /\ cstate' = [cstate EXCEPT ![ci] = "raised"]
                /\ cpc' = "AttributeError"
                /\ UNCHANGED <<members, cfiles, cpre, ci>>
           ELSE /\ members' = [members EXCEPT ![ci].jobid = r.id]
                /\ cfiles' = BackupOutputs(g, cfiles)
                /\ cpre' = cpre \ {g.outfile, g.errfile}
                /\ cstate' = [cstate EXCEPT ![ci] = "returned"]
                /\ ci' = ci + 1
                /\ cpc' = "run"
    /\ UNCHANGED <<corder, csub, sched, ctext, clobbered>>
    /\ UNCHANGED notColl

\* Mutant of CollReturn: run() returns when the jobs have been executed.
CollReturn_Waits ==
    /\ cpc = "run"
    /\ ci > Len(members)
    /\ \A i \in DOMAIN sched : sched[i] # "queued"
    /\ cpc' = "returned"
    /\ UNCHANGED <<members, cstate, ci, corder, sched, csub, cfiles, ctext,
                   cpre, clobbered>>
    /\ UNCHANGED notColl

\* Grid.run(): the loop is exhausted and run() returns.
CollReturn ==
    /\ cpc = "run"
    /\ ci > Len(members)
    /\ cpc' = "returned"
    /\ UNCHANGED <<members, cstate, ci, corder, sched, csub, cfiles, ctext,
                   cpre, clobbered>>
    /\ UNCHANGED notColl

\* The scheduler executes a job it holds, whenever it chooses to; the job
\* writes its destinations.
SchedExecute(i) ==
    /\ sched[i] = "queued"
    /\ sched' = [sched EXCEPT ![i] = "done"]
    /\ cfiles' = cfiles \cup Dests(members[i])
    /\ clobbered' = clobbered \cup (Dests(members[i]) \cap cpre)
    /\ cpre' = cpre \ Dests(members[i])
    /\ UNCHANGED <<members, cstate, cpc, ci, corder, csub, ctext>>
    /\ UNCHANGED notColl

CollNext ==
    \/ \E text \in Outputs : CollStart(text)
    \/ CollRead
    \/ CollReturn
    \/ \E i \in DOMAIN sched : SchedExecute(i)

CollSpec == CollInit /\ [][CollNext]_vars

\* ---------------------------------------------------------------------
\* Dependency and MakeManager
\* ---------------------------------------------------------------------
\* A file name is one string.  A command and a line of the makefile are
\* sequences of pieces.  An argument of add() is either one value or a list
\* of values: [islist |-> whether it is a list, val |-> the value(s)].

MaxOps == 3

One(x) == [islist |-> FALSE, val |-> <<x>>]
List(xs) == [islist |-> TRUE, val |-> xs]

\* listify(a): a itself when it is a list, else [a]
listify(a) == a.val

\* " ".join(names)
RECURSIVE JoinSp(_)
JoinSp(names) ==
    IF names = <<>> THEN <<>>
    ELSE IF Len(names) = 1 THEN <<names[1]>>
    ELSE <<names[1], " ">> \o JoinSp(Tail(names))

\* Mutant of NewDependency: the deletion command names the first target only.
NewDependency_RmFirstTarget(source, tgt, cmds, remove) ==
    [source |-> listify(source),
     target |-> listify(tgt),
     cmds |-> IF remove
              THEN <<<<"rm -f ", listify(tgt)[1]>>>> \o listify(cmds)
              ELSE listify(cmds)]

\* Dependency.__init__
NewDependency(source, tgt, cmds, remove) ==
    [source |-> listify(source),
     target |-> listify(tgt),
     cmds |-> IF remove
              THEN <<<<"rm -f ">> \o JoinSp(listify(tgt))>> \o listify(cmds)
              ELSE listify(cmds)]

\* Dependency.__str__, as lines: "target : source" and a tab before each
\* command
str(d) ==
    <<JoinSp(d.target) \o <<" : ">> \o JoinSp(d.source)>>
    \o [k \in DOMAIN d.cmds |-> <<"\t">> \o d.cmds[k]]

\* The arguments of the model.
Sources == {One("s"), List(<<"s", "t">>)}
Targets == {One("a"), One("b"), List(<<"a", "b">>)}
CmdArgs == {One(<<"cc">>), List(<<<<"cc">>, <<"ld">>>>)}

\* The lines of a makefile that was there before.
OldMakefile == <<<<"old">>>>

MakeInit ==
    /\ mdeps = <<>>
    /\ mtargets = <<>>
    /\ mfile \in {<<>>, <<OldMakefile>>}
    /\ mbak = <<>>
    /\ mstatus = "new"
    /\ mprev = <<>>
    /\ mcalls = 0
    /\ madds = <<>>
    /\ PipeIdle /\ GridIdle /\ CollIdle /\ KillIdle /\ JobsIdle /\ EngineIdle

\* MakeManager.add: self.targets takes the argument as it was given.
Add(source, tgt, cmds, remove) ==
    /\ mcalls < MaxOps
    /\ mcalls' = mcalls + 1
    /\ mdeps' = Append(mdeps, NewDependency(source, tgt, cmds, remove))
    /\ mtargets' = Append(mtargets, tgt)
    /\ madds' = Append(madds, [source |-> source, target |-> tgt,
                               cmds |-> cmds, remove |-> remove])
    /\ mstatus' = "added"
    /\ mprev' = <<>>
    /\ UNCHANGED <<mfile, mbak>>
    /\ UNCHANGED notMake

\* write(): the lines of "all : ..." and an empty line, then each
\* Dependency followed by an empty line
RECURSIVE Stanzas(_)
Stanzas(ds) ==
    IF ds = <<>> THEN <<>> ELSE str(Head(ds)) \o <<<<>>>> \o Stanzas(Tail(ds))

Makefile(ts, ds) ==
    <<<<"all : ">> \o JoinSp([k \in DOMAIN ts |-> ts[k].val[1]]), <<>>>>
    \o Stanzas(ds)

\* " ".join(self.targets) raises TypeError unless every item is a string
Joinable(ts) == \A k \in DOMAIN ts : ~ts[k].islist

\* Mutant of Write: the makefile is opened without the backup.
Write_InPlace ==
    /\ mcalls < MaxOps
    /\ mcalls' = mcalls + 1
    /\ UNCHANGED <<mdeps, mtargets, madds>>
    /\ IF mtargets = <<>>
       THEN /\ mstatus' = "AssertionError"
            /\ mprev' = <<>>
            /\ UNCHANGED <<mfile, mbak>>
       ELSE /\ mbak' = mbak
            /\ IF Joinable(mtargets)
               THEN /\ mfile' = <<Makefile(mtargets, mdeps)>>
                    /\ mstatus' = "written"
                    /\ mprev' = IF mstatus = "written" THEN mfile ELSE <<>>
               ELSE /\ mfile' = <<<<>>>>
                    /\ mstatus' = "TypeError"
                    /\ mprev' = <<>>
    /\ UNCHANGED notMake

\* MakeManager.write: the assertion; the backup of a makefile that exists;
\* open(filename, "w"), which leaves the file empty; then the lines, unless
\* the join raises.
Write ==
    /\ mcalls < MaxOps
    /\ mcalls' = mcalls + 1
    /\ UNCHANGED <<mdeps, mtargets, madds>>
    /\ IF mtargets = <<>>
       THEN /\ mstatus' = "AssertionError"
            /\ mprev' = <<>>
            /\ UNCHANGED <<mfile, mbak>>
       ELSE /\ mbak' = IF mfile # <<>> THEN mfile ELSE mbak
            /\ IF Joinable(mtargets)
               THEN /\ mfile' = <<Makefile(mtargets, mdeps)>>
                    /\ mstatus' = "written"
                    /\ mprev' = IF mstatus = "written" THEN mfile ELSE <<>>
               ELSE /\ mfile' = <<<<>>>>
                    /\ mstatus' = "TypeError"
                    /\ mprev' = <<>>
    /\ UNCHANGED notMake

MakeNext ==
    \/ \E source \in Sources, tgt \in Targets, cmds \in CmdArgs,
          remove \in BOOLEAN : Add(source, tgt, cmds, remove)
    \/ Write

MakeSpec == MakeInit /\ [][MakeNext]_vars

\* ---------------------------------------------------------------------
\* kill: cancel the jobs named by a token
\* ---------------------------------------------------------------------
\* The token, a job id and the user name are sequences of characters.  An
\* external command is [prog |-> its kind, args |-> its arguments].

MaxListed == 2

\* getusername()
User == <<"u">>

TagAll == <<"a", "l", "l">>

\* The tokens of the model: "all" bare and with blanks around it, id lists
\* (one with a repeated id, one with blanks around it), a name pattern, a
\* list with a name in it, a list with an empty item, the empty token, and a
\* list that has "all" as an item.
Tags ==
    {TagAll,
     <<" ", "a", "l", "l", "\n">>,
     <<"7", ",", "8">>,
     <<"7", ",", "7">>,
     <<" ", "7", "\n">>,
     <<"w", "_", "*">>,
     <<"7", ",", "w">>,
     <<"7", ",", ",", "8">>,
     <<>>,
     <<"a", "l", "l", ",", "7">>}

\* opts.method: not given, or one of valid_methods
Methods == {<<>>, <<"pattern">>, <<"jobid">>}

\* tag.split(",")
RECURSIVE split(_)
split(t) ==
    IF \E i \in DOMAIN t : t[i] = ","
    THEN LET i == CHOOSE i \in DOMAIN t :
                    t[i] = "," /\ \A j \in 1..(i - 1) : t[j] # ","
         IN  <<SubSeq(t, 1, i - 1)>> \o split(SubSeq(t, i + 1, Len(t)))
    ELSE <<t>>

\* is_number(s): s is a numeric string
is_number(t) == t # <<>> /\ \A i \in DOMAIN t : IsDigit(t[i])

\* Mutant of guess_method: one numeric item makes the token an id list.
guess_method_Any(tag) ==
    IF \E i \in DOMAIN split(tag) : is_number(split(tag)[i])
    THEN "jobid" ELSE "pattern"

guess_method(tag) ==
    IF \E i \in DOMAIN split(tag) : ~is_number(split(tag)[i])
    THEN "pattern" ELSE "jobid"

\* Mutant of IsAll: the token is compared as it was given.
IsAll_Untrimmed(tag) == tag = TagAll

\* tag = tag.strip(); if tag == "all"
IsAll(tag) == Strip(tag) = TagAll

\* What the status query can answer: the JB_job_number texts of the
\* elements of each djob_info of the listing.
JobNumbers == {<<"7">>, <<"8">>}
DjobInfos == {<<>>} \cup {<<n>> : n \in JobNumbers} \cup {<<<<"7">>, <<"8">>>>}
Listings == UNION {[1..n -> DjobInfos] : n \in 0..MaxListed}

\* How the status query can end: a non-zero exit (CalledProcessError), an
\* output that ET.fromstring or the element lookup rejects, or a listing.
QueryOutcomes ==
    {[kind |-> "CalledProcessError", listing |-> <<>>],
     [kind |-> "unparsable", listing |-> <<>>]}
    \cup {[kind |-> "xml", listing |-> l] : l \in Listings}

\* The job numbers of a listing: every element of every djob_info
ListedIds(l) == UNION {{l[i][j] : j \in DOMAIN l[i]} : i \in DOMAIN l}

\* The orders in which the items of a set can come out of it.
Orders(S) ==
    {f \in [1..Cardinality(S) -> S] : \A x \in S : \E i \in DOMAIN f : f[i] = x}

KillInit ==
    /\ ktag \in Tags
    /\ kmethod \in Methods
    /\ kpc = "start"
    /\ kclass = "none"
    /\ kids = {}
    /\ kquery = "none"
    /\ kcalls = <<>>
    /\ PipeIdle /\ GridIdle /\ CollIdle /\ MakeIdle /\ JobsIdle /\ EngineIdle

\* kill up to the status query: the token trimmed; "all" cancels the
\* user's jobs and returns; else the method, and for "jobid" the id set.
KillBegin ==
    /\ kpc = "start"
    /\ IF IsAll(ktag)
       THEN /\ kcalls' = Append(kcalls, [prog |-> "qdel -u", args |-> <<User>>])
            /\ kpc' = "done"
            /\ UNCHANGED <<kclass, kids>>
       ELSE LET tag == Strip(ktag)
                method == IF kmethod # <<>> THEN kmethod[1]
                          ELSE guess_method(tag)
            IN  /\ kclass' = method
                /\ kids' = IF method = "jobid"
                           THEN {split(tag)[i] : i \in DOMAIN split(tag)}
                           ELSE {}
                /\ kpc' = IF method = "jobid" THEN "qdel" ELSE "query"
                /\ UNCHANGED kcalls
    /\ UNCHANGED <<ktag, kmethod, kquery>>
    /\ UNCHANGED notKill

\* The status query of method "pattern" and the loop over its listing.
KillQuery(q) ==
    /\ kpc = "query"
    /\ kcalls' = Append(kcalls, [prog |-> "qstat", args |-> <<User, Strip(ktag)>>])
    /\ kquery' = q.kind
    /\ kids' = IF q.kind = "xml" THEN ListedIds(q.listing) ELSE {}
    /\ kpc' = IF q.kind = "unparsable" THEN "raised" ELSE "qdel"
    /\ UNCHANGED <<ktag, kmethod, kclass>>
    /\ UNCHANGED notKill

\* Mutant of KillQdel: the cancellation is called for an empty set too.
KillQdel_Unguarded(order) ==
    /\ kpc = "qdel"
    /\ order \in Orders(kids)
    /\ kcalls' = Append(kcalls, [prog |-> "qdel", args |-> order])
    /\ kpc' = "done"
    /\ UNCHANGED <<ktag, kmethod, kclass, kids, kquery>>
    /\ UNCHANGED notKill

\* if valid_jobids: sh("qdel " + ",".join(valid_jobids)); order is the
\* order in which the set gives its items.
KillQdel(order) ==
    /\ kpc = "qdel"
    /\ order \in Orders(kids)
    /\ kcalls' = IF kids # {}
                 THEN Append(kcalls, [prog |-> "qdel", args |-> order])
                 ELSE kcalls
    /\ kpc' = "done"
    /\ UNCHANGED <<ktag, kmethod, kclass, kids, kquery>>
    /\ UNCHANGED notKill

KillNext ==
    \/ KillBegin
    \/ \E q \in QueryOutcomes : KillQuery(q)
    \/ \E order \in Orders(kids) : KillQdel(order)

KillSpec == KillInit /\ [][KillNext]_vars

\* ---------------------------------------------------------------------
\* Jobs: one process per argument tuple, all started, then all joined
\* ---------------------------------------------------------------------

MaxProcs == 3

\* The argument tuples of the model.
ArgTuples == {<<"x">>, <<"y">>}

\* Jobs.__init__: for x in args: self.append(Process(target, args=x))
NewJobsList(as) == [i \in DOMAIN as |-> [args |-> as[i], st |-> "new"]]

JobsInit ==
    /\ jargs \in UNION {[1..n -> ArgTuples] : n \in 0..MaxProcs}
    /\ jprocs = NewJobsList(jargs)
    /\ jpc = "start"
    /\ ji = 1
    /\ PipeIdle /\ GridIdle /\ CollIdle /\ MakeIdle /\ KillIdle /\ EngineIdle

\* Jobs.start(), one turn of the loop: pi.start()
JobsStart ==
    /\ jpc = "start"
    /\ ji <= Len(jprocs)
    /\ jprocs' = [jprocs EXCEPT ![ji].st = "running"]
    /\ ji' = ji + 1
    /\ UNCHANGED <<jargs, jpc>>
    /\ UNCHANGED notJobs

\* Jobs.run(): start() has returned and join() begins
JobsStarted ==
    /\ jpc = "start"
    /\ ji > Len(jprocs)
    /\ jpc' = "join"
    /\ ji' = 1
    /\ UNCHANGED <<jargs, jprocs>>
    /\ UNCHANGED notJobs

\* Mutant of JobsJoin: join() goes on without the process having exited.
JobsJoin_NoWait ==
    /\ jpc = "join"
    /\ ji <= Len(jprocs)
    /\ ji' = ji + 1
    /\ UNCHANGED <<jargs, jprocs, jpc>>
    /\ UNCHANGED notJobs

\* Jobs.join(), one turn of the loop: pi.join() returns when the process
\* has exited
JobsJoin ==
    /\ jpc = "join"
    /\ ji <= Len(jprocs)
    /\ jprocs[ji].st = "exited"
    /\ ji' = ji + 1
    /\ UNCHANGED <<jargs, jprocs, jpc>>
    /\ UNCHANGED notJobs

\* Jobs.run(): join() has returned and so does run()
JobsReturn ==
    /\ jpc = "join"
    /\ ji > Len(jprocs)
    /\ jpc' = "returned"
    /\ UNCHANGED <<jargs, jprocs, ji>>
    /\ UNCHANGED notJobs

\* A started process runs target(*args) to its end and exits.
ProcExit(i) ==
    /\ jprocs[i].st = "running"
    /\ jprocs' = [jprocs EXCEPT ![i].st = "exited"]
    /\ UNCHANGED <<jargs, jpc, ji>>
    /\ UNCHANGED notJobs

JobsNext ==
    \/ JobsStart
    \/ JobsStarted
    \/ JobsJoin
    \/ JobsReturn
    \/ \E i \in DOMAIN jprocs : ProcExit(i)

JobsSpec == JobsInit /\ [][JobsNext]_vars

\* ---------------------------------------------------------------------
\* get_grid_engine: which scheduler client is installed
\* ---------------------------------------------------------------------
\* The command and the text read from it are sequences of characters.

MaxBanner == 3

\* cmd = "qsub --version"
VersionCmd ==
    <<"q", "s", "u", "b", " ", "-", "-", "v", "e", "r", "s", "i", "o", "n">>

\* The characters of the texts of the model.
BannerChars == {"P", "B", "S", "G", "E", " "}

\* What the version command can print.
Banners == UNION {[1..n -> BannerChars] : n \in 0..MaxBanner}

\* "PBS" in s
HasPBS(s) == HasRun(s, <<"P", "B", "S">>)

EngineInit ==
    /\ ecmd = <<>>
    /\ ebanner = <<>>
    /\ epc = "start"
    /\ engine = "none"
    /\ PipeIdle /\ GridIdle /\ CollIdle /\ MakeIdle /\ KillIdle /\ JobsIdle

\* get_grid_engine(): the command is run and its output read and dropped;
\* the test is made on cmd.
GetGridEngine(text) ==
    /\ epc = "start"
    /\ ecmd' = VersionCmd
    /\ ebanner' = text
    /\ engine' = IF HasPBS(VersionCmd) THEN "PBS" ELSE "SGE"
    /\ epc' = "returned"
    /\ UNCHANGED notEngine

EngineNext == \E text \in Banners : GetGridEngine(text)

EngineSpec == EngineInit /\ [][EngineNext]_vars

(***************************************************************************)
(* Properties of the aggregation pipeline.                                 *)
(***************************************************************************)
\* The effective worker count the specification states: min(C_req, N).
StatedCpus == Min(cpus_req, Len(args))

NoFail == \A w \in DOMAIN worker : worker[w] # "failed"

Failed == {w \in DOMAIN worker : worker[w] = "failed"}

RECURSIVE CountIn(_, _)
\* How many entries of the sequence q satisfy kind = k.
CountIn(q, k) ==
    IF q = <<>> THEN 0
    ELSE (IF Head(q).kind = k THEN 1 ELSE 0) + CountIn(Tail(q), k)

RECURSIVE Occurs(_, _)
\* How many entries of the sequence q equal x.
Occurs(q, x) ==
    IF q = <<>> THEN 0
    ELSE (IF Head(q) = x THEN 1 ELSE 0) + Occurs(Tail(q), x)

\* The results target returns over all the inputs, in input order.
AllResults == [i \in DOMAIN args |-> target(args[i])]

\* C1: with N >= 1 inputs and C_req >= 1, if no worker fails then run()
\* returns: as long as no worker has failed the pipeline is never stuck
\* before run() has returned, and once run() has returned every worker loop
\* and the writer loop have stopped, the tally equals min(C_req, N) and the
\* output file is closed.
C1_RunReturns ==
    /\ NoFail => (runpc = "returned" \/ ENABLED Next)
    /\ runpc = "returned" =>
        /\ \A w \in DOMAIN worker : worker[w] = "done"
        /\ writer = "done"
        /\ poisons = StatedCpus
        /\ fw = "closed"

\* C2: every input is dequeued by exactly one worker and target is applied
\* to it exactly once: never twice in any state, and never zero times once
\* the pipeline has come to rest without a failed worker.
C2_AppliedExactlyOnce ==
    /\ \A i \in DOMAIN args : got[i] <= 1 /\ applied[i] <= 1
    /\ (NoFail /\ ~ENABLED Next) =>
        \A i \in DOMAIN args : got[i] = 1 /\ applied[i] = 1

\* C3: nothing but non-empty results is ever written (no empty result, no
\* Poison), and when the writer has completed the output file holds every
\* non-empty result of the inputs exactly once, one per line, and nothing
\* else.
C3_OutputExact ==
    /\ \A k \in DOMAIN out : Truthy(out[k])
    /\ writer = "done" =>
        \A r \in Results :
            Occurs(out, r) = IF Truthy(r) THEN Occurs(AllResults, r) ELSE 0

\* C3 witness: the pipeline of two workers has completed over two inputs,
\* one with an empty result and one with a non-empty result, which is the
\* single line of the file.
C3_Witness ==
    /\ writer = "done"
    /\ Len(worker) = 2
    /\ Len(args) = 2
    /\ \E i \in DOMAIN args : ~Truthy(target(args[i]))
    /\ Len(out) = 1

\* C4: after construction the number of worker processes, the number of
\* Poisons on the work queue and the writer's threshold all equal
\* min(C_req, N), N the number of inputs.
C4_WorkerCountIsMin ==
    (runpc = "worker.start" /\ runi = 1) =>
        /\ Len(worker) = StatedCpus
        /\ CountIn(workerq, "Poison") = StatedCpus
        /\ wcpus = StatedCpus

\* C5: the effective worker count is never zero when there is at least one
\* input and the requested worker count is at least 1.
C5_WorkerCountNotZero ==
    (Len(args) > 0 /\ cpus_req >= 1) => (Len(worker) > 0 /\ wcpus > 0)

\* C6: only the writer process ever writes to the output file or holds it
\* open, workers never write to it, it is opened at most once, it is open
\* exactly while the writer is in or just past its loop, and it is closed
\* only after the writer loop has terminated.
C6_SingleWriter ==
    /\ wrote \subseteq {<<"writer", 0>>}
    /\ opens <= 1
    /\ fw = "open" => (writer \in {"loop", "close"} /\ opens = 1)
    /\ fw = "closed" => (writer = "done" /\ poisons = wcpus /\ opens = 1)
    /\ out # <<>> => fw # "none"

\* C6 witness: two workers have run, the writer has written a line and has
\* closed the file.
C6_Witness ==
    /\ fw = "closed"
    /\ wrote = {<<"writer", 0>>}
    /\ Len(worker) = 2
    /\ \A w \in DOMAIN worker : worker[w] = "done"

\* The Poisons pushed onto the result queue so far.
PoisonsPushed == poisons + CountIn(writerq, "Poison")

\* C7: once a worker has terminated abnormally while applying target it
\* stays terminated and has pushed no Poison, so the Poisons pushed stay
\* below the writer's threshold, the tally never reaches it, the writer loop
\* never ends and run() never returns.
C7_FailedWorkerStalls ==
    /\ [](Failed # {} =>
            /\ PoisonsPushed <= Len(worker) - Cardinality(Failed)
            /\ poisons < wcpus
            /\ writer \notin {"close", "done"}
            /\ fw # "closed"
            /\ runpc # "returned")
    /\ [][\A w \in DOMAIN worker :
            worker[w] = "failed" => worker'[w] = "failed"]_vars

\* C7 witness: one of two workers has failed, the other has finished and
\* its Poison is counted, and the writer waits on the empty result queue.
C7_Witness ==
    /\ Len(worker) = 2
    /\ Cardinality(Failed) = 1
    /\ \E w \in DOMAIN worker : worker[w] = "done"
    /\ writer = "loop"
    /\ writerq = <<>>
    /\ poisons = 1
    /\ runpc = "worker.join"
    /\ runi > Len(worker)

(***************************************************************************)
(* Properties of GridProcess.                                              *)
(***************************************************************************)
\* The last call was a start() that got as far as the submission.
Submitted == gstatus \in {"returned", "AttributeError"}

\* The command cmd carries the array flag for the range 1-a, and a is the
\* whole of the number in it.
HasArrayFlag(cmd, a) ==
    /\ HasRun(cmd, <<" -t 1-">> \o ToStr(a))
    /\ \A i \in DOMAIN cmd :
        IsDigit(cmd[i]) => ~HasRun(cmd, <<" -t 1-">> \o ToStr(a) \o <<cmd[i]>>)

\* C8: a build() of a descriptor whose array size a is given is rejected,
\* with nothing submitted, when a < 1 or a >= 100000, and is accepted for
\* every other a, the returned command carrying the array flag for 1-a.
C8_ArrayRange ==
    (gcalls > 0 /\ gp.arr # <<>>) =>
        IF gp.arr[1] < ArrLow \/ gp.arr[1] >= ArrHigh
        THEN gstatus = "AssertionError" /\ submitted = <<>>
        ELSE gstatus # "AssertionError" /\ HasArrayFlag(built, gp.arr[1])

\* C9: when the submission prints nothing, start() returns normally and the
\* job id is exactly "-1".
C9_EmptyOutputSentinel ==
    (Submitted /\ output = <<>>) =>
        (gstatus = "returned" /\ gp.jobid = <<"-", "1">>)

\* C9 witness: a start() has submitted an array job, the submission printed
\* nothing, and the job id is "-1".
C9_Witness ==
    /\ gstatus = "returned"
    /\ output = <<>>
    /\ gp.pat = "pat2"
    /\ Len(submitted) = 1
    /\ gp.jobid = <<"-", "1">>

\* C10 as stated: when the submission prints a non-empty text that the
\* pattern of the job does not match, start() raises and the job id keeps
\* the value it had before the call.
C10_UnmatchedRaises_Stated ==
    (Submitted /\ output # <<>> /\ search(gp.pat, output) = <<>>) =>
        (gstatus = "AttributeError" /\ gp.jobid = jobid0)

\* C10 as amended: when the submission prints a text with a non-whitespace
\* character in it that the pattern of the job does not match, start()
\* raises and the job id keeps the value it had before the call.
C10_UnmatchedRaises ==
    (Submitted /\ Strip(output) # <<>> /\ search(gp.pat, output) = <<>>) =>
        (gstatus = "AttributeError" /\ gp.jobid = jobid0)

\* C10 witness: a second start() of an array job, whose first start() parsed
\* an id, got the text of a scalar submission and raised; the id is kept.
C10_Witness ==
    /\ gstatus = "AttributeError"
    /\ gp.pat = "pat2"
    /\ output = OutScalar
    /\ jobid0 # <<>>
    /\ jobid0 # <<"-", "1">>
    /\ gp.jobid = jobid0

\* The ids in the two texts of an accepted submission.
IdScalar == <<"1", "2", "3">>
IdArray == <<"4", "5", "6", ".", "1", "-", "1", "0", ":", "1">>

\* C11: the pattern is chosen by whether the job is an array job; a scalar
\* job whose submission prints 'Your job 123 ...' gets exactly the job id
\* "123", an array job whose submission prints 'Your job-array 456.1-10:1
\* ...' gets exactly the whole token "456.1-10:1".
C11_PatternByArray ==
    /\ gstatus # "none" =>
        gp.pat = IF TruthyInt(gp.arr) THEN "pat2" ELSE "pat1"
    /\ (Submitted /\ ~TruthyInt(gp.arr) /\ output = OutScalar) =>
        (gstatus = "returned" /\ gp.jobid = IdScalar)
    /\ (Submitted /\ TruthyInt(gp.arr) /\ output = OutArray) =>
        (gstatus = "returned" /\ gp.jobid = IdArray)

\* C11 witness: an array job was submitted, the submission printed the text
\* of an array job, and the job id is the compound token.
C11_Witness ==
    /\ gstatus = "returned"
    /\ TruthyInt(gp.arr)
    /\ output = OutArray
    /\ gp.jobid = IdArray

\* The descriptor g differs from h at most in its command and its output
\* and error paths.
SameButPaths(g, h) ==
    [g EXCEPT !.cmd = h.cmd, !.outfile = h.outfile, !.errfile = h.errfile] = h

\* C13: after construction the job id is the one given and nothing is
\* submitted; a build() (and a start() that build() rejects) leaves the job
\* id and the submissions alone and changes at most the command and the
\* output and error paths of the descriptor; after a start() that returned
\* the job id is the id parsed from the text or "-1"; and the job id
\* changes in no step but a start() that returns.
C13_JobidOnlyInStart ==
    /\ [](gstatus = "constructed" => (gp.jobid = <<>> /\ submitted = <<>>))
    /\ [](gstatus = "returned" =>
            \/ gp.jobid = <<"-", "1">>
            \/ /\ search(gp.pat, output) # <<>>
               /\ gp.jobid = search(gp.pat, output)[1])
    /\ [][gstatus' \in {"built", "AssertionError"} =>
            /\ gp'.jobid = gp.jobid
            /\ submitted' = submitted
            /\ SameButPaths(gp', gp)]_vars
    /\ [][gp'.jobid # gp.jobid =>
            (gstatus' = "returned" /\ Len(submitted') = Len(submitted) + 1)]_vars

\* C13 witness: a build() after a start() that parsed an id: the id is kept
\* and the output path was rewritten once more.
C13_Witness ==
    /\ gstatus = "built"
    /\ gcalls = 2
    /\ gp.jobid = IdScalar
    /\ Len(submitted) = 1
    /\ Len(gp.outfile) > 3

\* The members whose submission command is running.
InFlight == {i \in DOMAIN cstate : cstate[i] = "popen"}

\* C12: Grid.run() calls start() on the members in registration order and
\* one at a time: the calls made so far are members 1..k in that order, at
\* most one submission is in flight, a submission begins only when every
\* earlier member's start() has returned and none is in flight, and once the
\* last start() has returned run() can return whatever the jobs are doing;
\* when it has returned, every member's start() has returned.
C12_SequentialSubmission ==
    /\ [](\A k \in DOMAIN corder : corder[k] = k)
    /\ [](Cardinality(InFlight) <= 1)
    /\ [][Len(corder') > Len(corder) =>
            /\ InFlight = {}
            /\ \A j \in 1..Len(corder) : cstate[j] = "returned"
            /\ corder' = Append(corder, Len(corder) + 1)]_vars
    /\ []((cpc = "run" /\ ci > Len(members)) => ENABLED CollReturn)
    /\ [](cpc = "returned" =>
            /\ Len(corder) = Len(members)
            /\ \A i \in DOMAIN cstate : cstate[i] = "returned")

\* C12 witness: run() has returned after two submissions and neither job
\* has been executed.
C12_Witness ==
    /\ cpc = "returned"
    /\ Len(members) = 2
    /\ corder = <<1, 2>>
    /\ \A i \in DOMAIN sched : sched[i] = "queued"

\* How a call of write() can end.
WriteEnded == {"written", "AssertionError", "TypeError"}

\* The targets of the Dependency list, one by one, in registration order.
RECURSIVE AllTargets(_)
AllTargets(ds) ==
    IF ds = <<>> THEN <<>> ELSE Head(ds).target \o AllTargets(Tail(ds))

\* C14: write() with no registered target fails with AssertionError and
\* leaves the makefile and its backup as they were; write() after at least
\* one add() succeeds, also when an add() gave several targets, and the
\* first line is "all : " and the registered targets one by one, separated
\* by spaces, in registration order.
C14_WriteSucceedsAfterAdd ==
    /\ (mstatus \in WriteEnded /\ mtargets = <<>>) =>
            /\ mstatus = "AssertionError"
            /\ mfile \in {<<>>, <<OldMakefile>>}
            /\ mbak = <<>>
    /\ (mstatus \in WriteEnded /\ mtargets # <<>>) =>
            /\ mstatus = "written"
            /\ mfile[1][1] = <<"all : ">> \o JoinSp(AllTargets(mdeps))

\* C15: when write() succeeds twice on the same graph with no add() in
\* between, the second call writes the lines the first one wrote, and the
\* file of the first call is then the backup.
C15_RewriteKeepsBackup ==
    (mstatus = "written" /\ mprev # <<>>) => (mfile = mprev /\ mbak = mprev)

\* C15 witness: two writes in a row of a graph whose Dependency has its
\* targets removed first.
C15_Witness ==
    /\ mstatus = "written"
    /\ mprev # <<>>
    /\ mdeps # <<>>
    /\ madds[1].remove
    /\ mbak = <<Makefile(mtargets, mdeps)>>

\* C16: the command list of a Dependency added with remove is one "rm -f"
\* command naming every target, then the caller's commands in their order;
\* without remove it is the caller's commands.  str() renders the commands
\* in that order, one per line after the first.
C16_RemoveFirst ==
    \A k \in DOMAIN mdeps :
        LET d == mdeps[k]
            a == madds[k]
            given == listify(a.cmds)
        IN  /\ IF a.remove
               THEN /\ Len(d.cmds) = Len(given) + 1
                    /\ d.cmds[1][1] = "rm -f "
                    /\ \A t \in DOMAIN listify(a.target) :
                          Contains(Tail(d.cmds[1]), listify(a.target)[t])
                    /\ Tail(d.cmds[1]) = JoinSp(listify(a.target))
                    /\ Tail(d.cmds) = given
               ELSE d.cmds = given
            /\ Tail(str(d)) = [c \in DOMAIN d.cmds |-> <<"\t">> \o d.cmds[c]]

\* C16 witness: a Dependency with two targets and two commands was added
\* with remove.
C16_Witness ==
    \E k \in DOMAIN mdeps :
        /\ madds[k].remove
        /\ Len(mdeps[k].target) = 2
        /\ Len(listify(madds[k].cmds)) = 2
        /\ Len(mdeps[k].cmds) = 3

\* The calls of one kind among the external commands kill has run.
Calls(prog) == {k \in DOMAIN kcalls : kcalls[k].prog = prog}

\* The items of a comma-separated token.
SubTokens(t) == {split(t)[i] : i \in DOMAIN split(t)}

\* C17: when the trimmed token is "all", kill makes exactly one call, the
\* cancellation of every job of the user, and nothing else: no method is
\* chosen, no status query is made, no id set is built or cancelled.
C17_AllBypasses ==
    (Strip(ktag) = TagAll /\ kpc # "start") =>
        /\ kpc = "done"
        /\ kcalls = <<[prog |-> "qdel -u", args |-> <<User>>]>>
        /\ kclass = "none"
        /\ kquery = "none"
        /\ kids = {}

\* C17 witness: kill has returned for the token " all\n".
C17_Witness ==
    /\ kpc = "done"
    /\ ktag # TagAll
    /\ Strip(ktag) = TagAll
    /\ Len(kcalls) = 1

\* C18: for a token other than "all", a non-empty id set gets exactly one
\* cancellation call, which lists every id of the set once; an empty id
\* set gets none; and a status query that exits with an error gives the
\* empty set and lets kill return.
C18_OneCancellation ==
    /\ (Strip(ktag) # TagAll /\ kpc = "done") =>
            /\ Calls("qdel -u") = {}
            /\ IF kids # {}
               THEN /\ Cardinality(Calls("qdel")) = 1
                    /\ kcalls[Len(kcalls)].prog = "qdel"
                    /\ LET ids == kcalls[Len(kcalls)].args
                       IN  /\ {ids[i] : i \in DOMAIN ids} = kids
                           /\ Len(ids) = Cardinality(kids)
               ELSE Calls("qdel") = {}
    /\ kquery = "CalledProcessError" =>
            /\ kids = {}
            /\ kpc \in {"qdel", "done"}
            /\ kpc = "qdel" => ENABLED (\E order \in Orders(kids) : KillQdel(order))

\* C18 witness: a pattern whose listing had two jobs was cancelled with one
\* call.
C18_Witness ==
    /\ kpc = "done"
    /\ kclass = "pattern"
    /\ kquery = "xml"
    /\ Cardinality(kids) = 2
    /\ Cardinality(Calls("qdel")) = 1

\* C19 as stated: a token other than "all" is handled as an id list exactly
\* when every item is numeric and as a pattern otherwise; for an id list
\* the id set is the set of the items and no status query is made.
C19_ClassifiedByItems ==
    (Strip(ktag) # TagAll /\ kpc # "start") =>
        /\ kclass = "jobid" <=> \A t \in SubTokens(Strip(ktag)) : is_number(t)
        /\ kclass = "pattern" <=> \E t \in SubTokens(Strip(ktag)) : ~is_number(t)
        /\ kclass = "jobid" =>
                (kids = SubTokens(Strip(ktag)) /\ Calls("qstat") = {})

\* C19 amended: that classification is the one made when no method option
\* is given; a given method is the one used, whatever the items are.  For
\* an id list, however chosen, the id set is the set of the items and no
\* status query is made.
C19_ClassifiedByItemsUnlessForced ==
    (Strip(ktag) # TagAll /\ kpc # "start") =>
        /\ kmethod = <<>> =>
            /\ kclass = "jobid" <=>
                    \A t \in SubTokens(Strip(ktag)) : is_number(t)
            /\ kclass = "pattern" <=>
                    \E t \in SubTokens(Strip(ktag)) : ~is_number(t)
        /\ kmethod # <<>> => kclass = kmethod[1]
        /\ kclass = "jobid" =>
                (kids = SubTokens(Strip(ktag)) /\ Calls("qstat") = {})

\* C19 witness: with no method given, "7,8" was cancelled as an id list.
C19_Witness ==
    /\ kpc = "done"
    /\ kmethod = <<>>
    /\ kclass = "jobid"
    /\ kids = {<<"7">>, <<"8">>}
    /\ Calls("qstat") = {}

\* C20: Jobs over N argument tuples holds exactly N processes, the i-th
\* made for the i-th tuple; run() starts them in that order and starts all
\* of them before it waits for any; and it returns only when all N have
\* exited.
C20_AllStartedThenJoined ==
    /\ [](/\ Len(jprocs) = Len(jargs)
          /\ \A i \in DOMAIN jprocs : jprocs[i].args = jargs[i])
    /\ [](jpc = "start" =>
            \A i \in DOMAIN jprocs : jprocs[i].st # "new" <=> i < ji)
    /\ [](jpc \in {"join", "returned"} =>
            \A i \in DOMAIN jprocs : jprocs[i].st # "new")
    /\ [](jpc = "returned" =>
            \A i \in DOMAIN jprocs : jprocs[i].st = "exited")
    /\ [][jpc' = "returned" /\ jpc # "returned" =>
            \A i \in DOMAIN jprocs : jprocs[i].st = "exited"]_vars

\* C20 witness: run() has returned for three tuples, not all the same.
C20_Witness ==
    /\ jpc = "returned"
    /\ Len(jargs) = 3
    /\ jargs[1] # jargs[3]
    /\ \A i \in DOMAIN jprocs : jprocs[i].st = "exited"

\* C21: get_grid_engine() returns the PBS dialect when the text read from
\* the version command contains "PBS" and the SGE dialect otherwise.
C21_EngineFromBanner ==
    epc = "returned" =>
        engine = IF HasPBS(ebanner) THEN "PBS" ELSE "SGE"

\* C22: a file that is at an output or error destination of a submitted job
\* before the submission is renamed by start(), and is never written over
\* in place: when start() has returned none of the member's destinations
\* holds such a file, and no job has written over one.
C22_BackupBeforeOverwrite ==
    /\ \A i \in DOMAIN members :
            cstate[i] = "returned" => Dests(members[i]) \cap cpre = {}
    /\ clobbered = {}

\* The workers that have dequeued a Poison.
TookPoison == {w \in DOMAIN worker : worker[w] \in {"break", "done"}}

\* The real inputs precede the Poisons in the queue q.
InputsFirst(q) ==
    \A j, k \in DOMAIN q : (j < k /\ IsPoison(q[j])) => IsPoison(q[k])

\* C23: before a worker or the writer is started the work queue holds the
\* N inputs in order and then C Poisons, C being min(C_req, N); a worker
\* that has dequeued a Poison leaves no real input in the queue; the
\* Poisons dequeued, one per worker at most, and those still queued are C
\* together; and when run() has returned every worker has dequeued its
\* Poison and the work queue is empty.
C23_SeededQueue ==
    /\ (runpc = "worker.start" /\ runi = 1) =>
            workerq = SeedQueue(args, StatedCpus)
    /\ InputsFirst(workerq)
    /\ TookPoison # {} => \A k \in DOMAIN workerq : IsPoison(workerq[k])
    /\ Cardinality(TookPoison) + CountIn(workerq, "Poison") = StatedCpus
    /\ runpc = "returned" =>
            /\ workerq = <<>>
            /\ TookPoison = DOMAIN worker
            /\ Len(worker) = StatedCpus

\* C24: a build() that returns a command redirects as the descriptor it
\* was called on says.  With an output and an error destination given and
\* equal, the command has the combined-stream flag, the output flag with
\* the path joined onto the output directory, and no error flag.  Otherwise
\* each destination that is given has its own flag with its path joined
\* onto the output directory, that joined path is stored back on the
\* descriptor, there is no combined-stream flag, and a destination that is
\* not given has no flag.
C24_Redirection ==
    [][(gcalls' = gcalls + 1 /\ built' # <<>>) =>
        LET o == join(gp.outdir, gp.outfile)
            e == join(gp.outdir, gp.errfile)
        IN  IF TruthyStr(gp.outfile) /\ gp.outfile = gp.errfile
            THEN /\ Contains(built', " -j y")
                 /\ ~Contains(built', " -e ")
                 /\ HasRun(built', <<" -o ">> \o o)
                 /\ gp'.outfile = o
            ELSE /\ ~Contains(built', " -j y")
                 /\ IF TruthyStr(gp.outfile)
                    THEN HasRun(built', <<" -o ">> \o o) /\ gp'.outfile = o
                    ELSE ~Contains(built', " -o ")
                 /\ IF TruthyStr(gp.errfile)
                    THEN HasRun(built', <<" -e ">> \o e) /\ gp'.errfile = e
                    ELSE ~Contains(built', " -e ")]_vars

\* C24 witness: the first build() of a descriptor given "o" for both
\* destinations returned a command with the combined-stream flag.
C24_Witness ==
    /\ gstatus = "built"
    /\ gcalls = 1
    /\ gp.errfile = <<"o">>
    /\ gp.outfile = join(gp.outdir, <<"o">>)
    /\ Contains(built, " -j y")
    /\ ~Contains(built, " -e ")

\* The writer has left its loop.
WriterStopped == writer \in {"close", "done"}

\* C25: a worker that has pushed its Poison has stopped for good and a
\* result is pushed only by a worker that is still in its loop, so the
\* Poison of a worker comes after every result of that worker.  When the
\* writer has left its loop its tally is the worker count, every worker has
\* stopped after pushing its Poison, and the result queue is empty: nothing
\* that was pushed is left unread.  With the tally at min(C_req, N) the
\* workers are that many.
C25_NothingLeftUnread ==
    /\ [](WriterStopped =>
            /\ poisons = wcpus
            /\ Len(worker) = wcpus
            /\ \A w \in DOMAIN worker : worker[w] = "done"
            /\ writerq = <<>>
            /\ Len(out) = Cardinality({i \in DOMAIN args : Truthy(target(args[i]))}))
    /\ []((WriterStopped /\ poisons = StatedCpus) => Len(worker) = StatedCpus)
    /\ [][\A w \in DOMAIN worker :
            worker[w] = "done" => worker'[w] = "done"]_vars
    /\ [][(Len(writerq') > Len(writerq)
            /\ ~IsPoison(writerq'[Len(writerq')])) =>
                \E w \in DOMAIN worker :
                    worker[w] = "apply" /\ worker'[w] = "get"]_vars

\* C25 witness: the writer has left its loop after counting the Poisons of
\* two workers and printing two lines.
C25_Witness ==
    /\ WriterStopped
    /\ poisons = 2
    /\ Len(worker) = 2
    /\ Len(out) = 2
    /\ writerq = <<>>

====
